---- MODULE Spec2Model ----
(***************************************************************************)
(* Model of the Silktide Consent Manager (silktide-consent-manager.js):    *)
(* the localStorage adapter, the legacy-key migration, the consent store,  *)
(* batchUpdateConsents, the load-time evaluation and the public API.       *)
(*                                                                         *)
(* JavaScript values are strings here: JsTrue/JsFalse are the booleans,    *)
(* Null and Undefined the two empty values; the strings kept in            *)
(* localStorage ("true", "false", "1") are different values, so that       *)
(* toString and the === 'true' parse are real conversions.                 *)
(* Storage keys, category ids and namespaces are sequences of tokens, the  *)
(* separators "." and "_" being tokens of their own, so that two           *)
(* different (namespace, id) pairs that build the same string build the    *)
(* same key.                                                               *)
(***************************************************************************)
EXTENDS Naturals, Sequences, FiniteSets, TLC

VARIABLES
  ls,           \* window.localStorage: present key -> string
  lsMode,       \* how the browser's storage behaves: "none" | "quota" | "disabled"
  integration,  \* which global integration function the page defines: "gtag" | "silktide"
  doc,          \* the script elements appended to document.head, in order
  timers,       \* pending setTimeout(reload) timers
  cm,           \* the IIFE's consentManager: NoInstance or the instance's fields
  last          \* the last operation: name, argument, result, trace of effects, state before

vars == <<ls, lsMode, integration, doc, timers, cm, last>>

\* ------------------------------------------------------------------ values

JsTrue == "<true>"
JsFalse == "<false>"
Null == "<null>"
Undefined == "<undefined>"

\* One effect of an operation: its kind e, what it was about (k, v) and
\* whether the browser let it happen.
Ev(e, k, v, ok) == [e |-> e, k |-> k, v |-> v, ok |-> ok]

NoInstance == [exists |-> FALSE]

\* Pending reload timers the model follows.
MaxTimers == 1

Truthy(v) == v \notin {JsFalse, Null, Undefined, ""}

\* accepted.toString() (line 254): defined on booleans only.
ToStringThrows(v) == v \in {Null, Undefined}

BoolToString(v) == IF v = JsTrue THEN "true" ELSE "false"

\* value === null ? null : value === 'true'  (line 244)
ParseChoice(value) ==
  IF value = Null THEN Null ELSE IF value = "true" THEN JsTrue ELSE JsFalse

Emit(w, ev) == [w EXCEPT !.trace = Append(@, ev)]

\* The world an operation runs in and changes.
World(store, document, t) ==
  [ls |-> store, doc |-> document, timers |-> t, trace |-> <<>>, thrown |-> FALSE]

IsPrefix(p, s) == Len(p) <= Len(s) /\ SubSeq(s, 1, Len(p)) = p

\* ------------------------------------------------------------ configuration

Script(url) == [url |-> url]

NoGtag == [k |-> "none"]
GtagString(s) == [k |-> "str", s |-> s]
GtagArray(a) == [k |-> "arr", a |-> a]

\* type.gtag is truthy (lines 536, 600, 755)
HasGtag(type) == type.gtag.k # "none"

\* Array.isArray(type.gtag) ? type.gtag : [type.gtag]  (lines 541, 601, 757)
GtagParams(type) == IF type.gtag.k = "arr" THEN type.gtag.a ELSE <<type.gtag.s>>

Necessary ==
  [id |-> <<"necessary">>, required |-> TRUE, defaultValue |-> FALSE,
   scripts |-> <<Script("u0")>>, gtag |-> GtagArray(<<"security_storage", "functionality_storage">>),
   onAccept |-> TRUE, onReject |-> TRUE]

Analytics ==
  [id |-> <<"analytics">>, required |-> FALSE, defaultValue |-> FALSE,
   scripts |-> <<Script(""), Script("u1"), Script("u0")>>,
   gtag |-> GtagString("analytics_storage"),
   onAccept |-> TRUE, onReject |-> TRUE]

Config(types, ns) ==
  [given |-> TRUE, isArray |-> TRUE, consentTypes |-> types, namespace |-> ns,
   autoShow |-> TRUE,
   onAcceptAll |-> TRUE, onRejectAll |-> TRUE]

MainConfig == Config(<<Necessary, Analytics>>, <<>>)

\* A second configuration: the required category has no signal identifier
\* and a third category has no script.
Essential ==
  [id |-> <<"necessary">>, required |-> TRUE, defaultValue |-> FALSE,
   scripts |-> <<Script("u0")>>, gtag |-> NoGtag,
   onAccept |-> TRUE, onReject |-> TRUE]

Marketing ==
  [id |-> <<"marketing">>, required |-> FALSE, defaultValue |-> TRUE,
   scripts |-> <<>>, gtag |-> GtagArray(<<"ad_storage", "ad_user_data">>),
   onAccept |-> TRUE, onReject |-> TRUE]

WideConfig == Config(<<Essential, Analytics, Marketing>>, <<>>)

\* ---------------------------------------------------------- storage adapter

\* F applied to the value of x.  Binding x through a one-element set makes it
\* a value computed once, however often F uses it: the world an operation
\* works on is threaded through every step of a handler.
With(x, F(_)) == CHOOSE r \in {F(v) : v \in {x}} : TRUE

\* Whether the browser's localStorage call throws in the current mode.
\* "disabled": every access throws (storage blocked); "quota": setItem of a
\* consent value throws (storage full); "none": nothing throws.
RawThrows(op) ==
  IF lsMode = "disabled" THEN TRUE ELSE lsMode = "quota" /\ op = "setItem"

TestKey == <<"__stcm_test__">>

Without(store, key) == [k \in DOMAIN store \ {key} |-> store[k]]

\* lines 77-87.  The probe writes and removes one tiny entry; a full store
\* still takes it, a blocked store does not.
_checkLocalStorageAvailable(w) ==
  IF lsMode = "disabled"
    THEN [w |-> Emit(w, Ev("setItem", TestKey, "1", FALSE)), ret |-> FALSE]
    ELSE [w |-> [w EXCEPT !.trace = @ \o <<Ev("setItem", TestKey, "1", TRUE),
                                            Ev("removeItem", TestKey, Null, TRUE)>>,
                          !.ls = Without(@, TestKey)],
          ret |-> TRUE]

\* lines 95-105
_getLocalStorageItem(self, w0, key) ==
  With(w0, LAMBDA w :
    IF ~self.localStorageAvailable THEN [w |-> w, ret |-> Null]
    ELSE IF RawThrows("getItem")
      THEN [w |-> Emit(w, Ev("getItem", key, Null, FALSE)), ret |-> Null]
      ELSE [w |-> Emit(w, Ev("getItem", key, Null, TRUE)),
            ret |-> IF key \in DOMAIN w.ls THEN w.ls[key] ELSE Null])

\* _setLocalStorageItem without the availability check.
_setLocalStorageItem_Unchecked(self, w, key, value) ==
  IF RawThrows("setItem")
    THEN [w |-> Emit(w, Ev("setItem", key, value, FALSE)), ret |-> FALSE]
    ELSE [w |-> [w EXCEPT !.trace = Append(@, Ev("setItem", key, value, TRUE)),
                          !.ls = (key :> value) @@ @],
          ret |-> TRUE]

\* lines 114-125
_setLocalStorageItem(self, w, key, value) ==
  IF ~self.localStorageAvailable THEN [w |-> w, ret |-> FALSE]
  ELSE IF RawThrows("setItem")
    THEN [w |-> Emit(w, Ev("setItem", key, value, FALSE)), ret |-> FALSE]
    ELSE [w |-> [w EXCEPT !.trace = Append(@, Ev("setItem", key, value, TRUE)),
                          !.ls = (key :> value) @@ @],
          ret |-> TRUE]

\* lines 133-144
_removeLocalStorageItem(self, w, key) ==
  IF ~self.localStorageAvailable THEN [w |-> w, ret |-> FALSE]
  ELSE IF RawThrows("removeItem")
    THEN [w |-> Emit(w, Ev("removeItem", key, Null, FALSE)), ret |-> FALSE]
    ELSE [w |-> [w EXCEPT !.trace = Append(@, Ev("removeItem", key, Null, TRUE)),
                          !.ls = Without(@, key)],
          ret |-> TRUE]

\* ------------------------------------------------------------- key builders

\* lines 201-204
_buildOldConsentKey(self, typeId) ==
  <<"silktideCookieChoice", "_">> \o typeId
    \o (IF self.config.namespace # <<>> THEN <<"_">> \o self.config.namespace ELSE <<>>)

\* lines 206-209
_buildOldHasConsentedKey(self) ==
  <<"silktideCookieBanner", "_", "InitialChoice">>
    \o (IF self.config.namespace # <<>> THEN <<"_">> \o self.config.namespace ELSE <<>>)

\* lines 212-215
_buildConsentKey(self, typeId) ==
  <<"stcm", ".">>
    \o (IF self.config.namespace # <<>> THEN self.config.namespace \o <<".">> ELSE <<>>)
    \o <<"consent", ".">> \o typeId

\* lines 217-220
_buildHasConsentedKey(self) ==
  <<"stcm", ".">>
    \o (IF self.config.namespace # <<>> THEN self.config.namespace \o <<".">> ELSE <<>>)
    \o <<"hasConsented">>

\* ------------------------------------------------------------ consent store

\* Migrate without the removal of the old key.
Migrate_KeepOld(self, w, newKey, oldKey, value) ==
  _setLocalStorageItem(self, w, newKey, value).w

\* The migration step of the two reads (lines 236-240, 276-279): write the
\* value under the new key, then delete the old key.
Migrate(self, w, newKey, oldKey, value) ==
  _removeLocalStorageItem(self, _setLocalStorageItem(self, w, newKey, value).w, oldKey).w

\* The raw string of a logical value, read with lazy migration
\* (lines 228-241 and 268-280 are the same code for the two key pairs).
ReadMigrating(self, w, newKey, oldKey) ==
  With(_getLocalStorageItem(self, w, newKey), LAMBDA r1 :
    IF r1.ret # Null THEN r1
    ELSE With(_getLocalStorageItem(self, r1.w, oldKey), LAMBDA r2 :
           IF r2.ret # Null
             THEN [w |-> Migrate(self, r2.w, newKey, oldKey, r2.ret), ret |-> r2.ret]
             ELSE r2))

\* lines 227-245
getConsentChoice(self, w, typeId) ==
  With(ReadMigrating(self, w, _buildConsentKey(self, typeId),
                     _buildOldConsentKey(self, typeId)),
       LAMBDA r : [w |-> r.w, ret |-> ParseChoice(r.ret)])

\* CleanupOldKey leaving the old key where it is.
CleanupOldKey_Keep(self, w, oldKey) == w

\* The cleanup of the two writes (lines 257-260, 290-293).
CleanupOldKey(self, w, oldKey) ==
  With(_getLocalStorageItem(self, w, oldKey), LAMBDA r :
    IF r.ret # Null THEN _removeLocalStorageItem(self, r.w, oldKey).w ELSE r.w)

\* setConsentChoice written with String(accepted): nothing throws and the
\* missing value is stored as text.
setConsentChoice_StringOf(self, w, typeId, accepted) ==
  CleanupOldKey(self,
    _setLocalStorageItem(self, w, _buildConsentKey(self, typeId),
                         IF ToStringThrows(accepted) THEN "undefined"
                         ELSE BoolToString(accepted)).w,
    _buildOldConsentKey(self, typeId))

\* lines 252-261.  accepted.toString() throws a TypeError on null and
\* undefined, before anything is written.
setConsentChoice(self, w, typeId, accepted) ==
  IF ToStringThrows(accepted) THEN [w EXCEPT !.thrown = TRUE]
  ELSE CleanupOldKey(self,
         _setLocalStorageItem(self, w, _buildConsentKey(self, typeId),
                              BoolToString(accepted)).w,
         _buildOldConsentKey(self, typeId))

\* lines 267-283
getHasConsented(self, w) ==
  With(ReadMigrating(self, w, _buildHasConsentedKey(self), _buildOldHasConsentedKey(self)),
       LAMBDA r : [w |-> r.w, ret |-> r.ret # Null])

\* setHasConsented that stores nothing.
setHasConsented_Nothing(self, w) == w

\* lines 285-294
setHasConsented(self, w) ==
  CleanupOldKey(self,
    _setLocalStorageItem(self, w, _buildHasConsentedKey(self), "1").w,
    _buildOldHasConsentedKey(self))

\* --------------------------------------------------------- script injection

\* document.querySelector(`script[src="${url}"]`)  (line 315)
ScriptPresent(document, url) == \E i \in 1..Len(document) : document[i].src = url

\* _injectScript without the look for an existing element.
_injectScript_Unchecked(w0, scriptConfig, consentId) ==
  With(w0, LAMBDA w :
    IF scriptConfig.url = "" THEN w
    ELSE [w EXCEPT !.trace = Append(@, Ev("appendChild", scriptConfig.url, consentId, TRUE)),
                   !.doc = Append(@, [src |-> scriptConfig.url, consentId |-> consentId])])

\* lines 306-331
_injectScript(w0, scriptConfig, consentId) ==
  With(w0, LAMBDA w :
    IF scriptConfig.url = "" THEN w
    ELSE IF ScriptPresent(w.doc, scriptConfig.url) THEN w
    ELSE [w EXCEPT !.trace = Append(@, Ev("appendChild", scriptConfig.url, consentId, TRUE)),
                   !.doc = Append(@, [src |-> scriptConfig.url, consentId |-> consentId])])

RECURSIVE InjectFrom(_, _, _)
InjectFrom(w, type, i) ==
  IF i > Len(type.scripts) THEN w
  ELSE InjectFrom(_injectScript(w, type.scripts[i], type.id), type, i + 1)

\* lines 338-346
_injectConsentScripts(w, type) == InjectFrom(w, type, 1)

\* typeof type.onAccept === 'function' -> type.onAccept()  (lines 645-647, 763-765, 781-783)
CallOnAccept(w, type) ==
  IF type.onAccept THEN Emit(w, Ev("onAccept", type.id, Null, TRUE)) ELSE w

\* typeof type.onReject === 'function' -> type.onReject()  (lines 649-651, 795-797)
CallOnReject(w, type) ==
  IF type.onReject THEN Emit(w, Ev("onReject", type.id, Null, TRUE)) ELSE w

\* ------------------------------------------------------ batchUpdateConsents

EventName == "stcm_consent_update"

\* consentStates[type.id]
Lookup(consentStates, id) ==
  IF id \in DOMAIN consentStates THEN consentStates[id] ELSE Undefined

\* IsChange comparing the new value's string with the stored boolean.
IsChange_String(newState, previousState) == BoolToString(newState) # previousState

\* newState !== previousState  (line 583)
IsChange(newState, previousState) == newState # previousState

\* lines 593-595
RevokedWithScripts(type, previousState, newState) ==
  previousState = JsTrue /\ newState = JsFalse /\ Len(type.scripts) > 0

\* newState ? 'granted' : 'denied'  (line 602)
ConsentState(newState) == IF Truthy(newState) THEN "granted" ELSE "denied"

\* gtagParams.forEach(param => { gtagConsentUpdate[param] = consentState })
\* under if (type.gtag)  (lines 600-606)
SetParams(gtagConsentUpdate, type, consentState) ==
  IF HasGtag(type)
    THEN [p \in {GtagParams(type)[i] : i \in 1..Len(GtagParams(type))} |-> consentState]
           @@ gtagConsentUpdate
    ELSE gtagConsentUpdate

EmptyPayload == [p \in {} |-> "denied"]

\* One iteration of the first pass (lines 579-607).
FirstPassStep(self, acc0, consentStates, type) ==
  With(acc0, LAMBDA acc :
    With(getConsentChoice(self, acc.w, type.id), LAMBDA r :
      IF IsChange(Lookup(consentStates, type.id), r.ret)
        THEN [w |-> r.w,
              changes |-> Append(acc.changes,
                                 [type |-> type,
                                  newState |-> Lookup(consentStates, type.id),
                                  previousState |-> r.ret]),
              needsReload |->
                IF RevokedWithScripts(type, r.ret, Lookup(consentStates, type.id))
                  THEN TRUE ELSE acc.needsReload,
              gtagConsentUpdate |->
                SetParams(acc.gtagConsentUpdate, type,
                          ConsentState(Lookup(consentStates, type.id)))]
        ELSE [acc EXCEPT !.w = r.w]))

RECURSIVE FirstPass(_, _, _, _)
FirstPass(self, acc, consentStates, i) ==
  IF i > Len(self.config.consentTypes) THEN acc
  ELSE FirstPass(self, FirstPassStep(self, acc, consentStates, self.config.consentTypes[i]),
                 consentStates, i + 1)

\* Second pass (lines 616-618); a TypeError ends the forEach and the call.
RECURSIVE SaveChanges(_, _, _, _)
SaveChanges(self, w0, changes, i) ==
  With(w0, LAMBDA w :
    IF i > Len(changes) THEN w
    ELSE IF w.thrown THEN w
    ELSE SaveChanges(self, setConsentChoice(self, w, changes[i].type.id, changes[i].newState),
                     changes, i + 1))

\* window.silktide(analyticsGranted ? 'consent' : 'unconsent')  (lines 629-630, 809-810)
CallSilktide(w, gtagConsentUpdate) ==
  Emit(w, Ev("silktide", Null,
             IF gtagConsentUpdate["analytics_storage"] = "granted"
               THEN "consent" ELSE "unconsent", TRUE))

\* lines 621-632
SignalBatch(w, gtagConsentUpdate) ==
  IF DOMAIN gtagConsentUpdate # {} /\ integration = "gtag"
    THEN Emit(w, Ev("gtag", "update", gtagConsentUpdate, TRUE))
  ELSE IF "analytics_storage" \in DOMAIN gtagConsentUpdate /\ integration = "silktide"
    THEN CallSilktide(w, gtagConsentUpdate)
  ELSE w

\* window.dataLayer.push({ 'event': this.config.eventName })  (lines 635-636, 817-818)
PushEvent(w) == Emit(w, Ev("dataLayer.push", Null, EventName, TRUE))

\* ChangeCallback injecting the scripts of a denied category too.
ChangeCallback_AlwaysInject(w, change) ==
  IF Truthy(change.newState)
    THEN CallOnAccept(_injectConsentScripts(w, change.type), change.type)
    ELSE CallOnReject(_injectConsentScripts(w, change.type), change.type)

\* One iteration of the third pass (lines 643-652).
ChangeCallback(w, change) ==
  IF Truthy(change.newState)
    THEN CallOnAccept(_injectConsentScripts(w, change.type), change.type)
    ELSE CallOnReject(w, change.type)

RECURSIVE RunChangeCallbacks(_, _, _)
RunChangeCallbacks(w, changes, i) ==
  IF i > Len(changes) THEN w
  ELSE RunChangeCallbacks(ChangeCallback(w, changes[i]), changes, i + 1)

\* lines 656-660
ScheduleReload(w, needsReload) ==
  IF needsReload
    THEN [w EXCEPT !.trace = Append(@, Ev("setTimeout", Null, "reload", TRUE)),
                   !.timers = @ + 1]
    ELSE w

\* batchUpdateConsents running the callbacks before the integration call.
batchUpdateConsents_CallbacksFirst(self, w0, consentStates) ==
  With(FirstPass(self,
                 [w |-> Emit(w0, Ev("batchUpdateConsents", Null, consentStates, TRUE)),
                  changes |-> <<>>, needsReload |-> FALSE,
                  gtagConsentUpdate |-> EmptyPayload],
                 consentStates, 1),
       LAMBDA p :
    IF p.changes = <<>> THEN [w |-> p.w, ret |-> JsFalse]
    ELSE With(SaveChanges(self, p.w, p.changes, 1), LAMBDA saved :
           IF saved.thrown THEN [w |-> saved, ret |-> Undefined]
           ELSE [w |-> ScheduleReload(
                         PushEvent(SignalBatch(RunChangeCallbacks(saved, p.changes, 1),
                                               p.gtagConsentUpdate)),
                         p.needsReload),
                 ret |-> JsTrue]))

\* lines 571-663.  The call and its argument open the trace.
batchUpdateConsents(self, w0, consentStates) ==
  With(FirstPass(self,
                 [w |-> Emit(w0, Ev("batchUpdateConsents", Null, consentStates, TRUE)),
                  changes |-> <<>>, needsReload |-> FALSE,
                  gtagConsentUpdate |-> EmptyPayload],
                 consentStates, 1),
       LAMBDA p :
    IF p.changes = <<>> THEN [w |-> p.w, ret |-> JsFalse]
    ELSE With(SaveChanges(self, p.w, p.changes, 1), LAMBDA saved :
           IF saved.thrown THEN [w |-> saved, ret |-> Undefined]
           ELSE [w |-> ScheduleReload(
                         RunChangeCallbacks(
                           PushEvent(SignalBatch(saved, p.gtagConsentUpdate)),
                           p.changes, 1),
                         p.needsReload),
                 ret |-> JsTrue]))

\* ------------------------------------------------------------ consent reads

EmptyMap == [id \in {} |-> Null]

\* The loop of getAcceptedConsents (lines 706-709).
RECURSIVE AcceptedFrom(_, _, _)
AcceptedFrom(self, acc0, i) ==
  IF i > Len(self.config.consentTypes) THEN acc0
  ELSE With(acc0, LAMBDA acc :
         With(getConsentChoice(self, acc.w, self.config.consentTypes[i].id), LAMBDA r :
           AcceptedFrom(self,
                        [w |-> r.w,
                         ret |-> (self.config.consentTypes[i].id :> r.ret) @@ acc.ret],
                        i + 1)))

\* lines 705-710
getAcceptedConsents(self, w) == AcceptedFrom(self, [w |-> w, ret |-> EmptyMap], 1)

\* IsExplicitReject written as !choice.
IsExplicitReject_Falsy(choice) == IF Truthy(choice) THEN JsFalse ELSE JsTrue

\* choice === false  (line 720)
IsExplicitReject(choice) == IF choice = JsFalse THEN JsTrue ELSE JsFalse

\* The loop of getRejectedConsents (lines 717-722).
RECURSIVE RejectedFrom(_, _, _)
RejectedFrom(self, acc0, i) ==
  IF i > Len(self.config.consentTypes) THEN acc0
  ELSE With(acc0, LAMBDA acc :
         With(getConsentChoice(self, acc.w, self.config.consentTypes[i].id), LAMBDA r :
           RejectedFrom(self,
                        [w |-> r.w,
                         ret |-> (self.config.consentTypes[i].id :> IsExplicitReject(r.ret))
                                   @@ acc.ret],
                        i + 1)))

\* lines 716-723
getRejectedConsents(self, w) == RejectedFrom(self, [w |-> w, ret |-> EmptyMap], 1)

\* updateCheckboxState(false) (lines 463-528, the reading branch): the stored
\* choice of every category that is not required is read.
RECURSIVE updateCheckboxStateFrom(_, _, _)
updateCheckboxStateFrom(self, w, i) ==
  IF i > Len(self.config.consentTypes) THEN w
  ELSE updateCheckboxStateFrom(
         self,
         IF self.config.consentTypes[i].required THEN w
         ELSE getConsentChoice(self, w, self.config.consentTypes[i].id).w,
         i + 1)

updateCheckboxState(self, w) == updateCheckboxStateFrom(self, w, 1)

\* ------------------------------------------------------------ clearAllConsents

\* MatchesConsentPattern knowing the current prefix only.
MatchesConsentPattern_NewOnly(key) == IsPrefix(<<"stcm", ".">>, key)

\* lines 181-185
MatchesConsentPattern(key) ==
  IF IsPrefix(<<"silktideCookieBanner", "_">>, key) THEN TRUE
  ELSE IF IsPrefix(<<"silktideCookieChoice", "_">>, key) THEN TRUE
  ELSE IsPrefix(<<"stcm", ".">>, key)

\* KeysToRemove taking the keys of the choices only.
KeysToRemove_ChoicesOnly(store) ==
  {k \in DOMAIN store :
     IsPrefix(<<"stcm", ".", "consent", ".">>, k) \/ IsPrefix(<<"silktideCookieChoice", "_">>, k)}

\* lines 178-188
KeysToRemove(store) == {k \in DOMAIN store : MatchesConsentPattern(k)}

\* keysToRemove.forEach(key => this._removeLocalStorageItem(key))  (line 190)
RECURSIVE RemoveKeys(_, _, _)
RemoveKeys(self, w, keys) ==
  IF keys = {} THEN w
  ELSE RemoveKeys(self, _removeLocalStorageItem(self, w, CHOOSE x \in keys : TRUE).w,
                  keys \ {CHOOSE x \in keys : TRUE})

\* lines 170-194.  Reading localStorage.length and key(i) throws in a blocked
\* store; the catch ignores it and nothing is removed.
clearAllConsents(self, w0) ==
  With(w0, LAMBDA w :
    IF ~self.localStorageAvailable THEN w
    ELSE IF lsMode = "disabled" THEN Emit(w, Ev("key", Null, Null, FALSE))
    ELSE RemoveKeys(self, Emit(w, Ev("key", Null, Null, TRUE)), KeysToRemove(w.ls)))

\* --------------------------------------------------------- load evaluation

\* type.gtag -> hasGtagUpdates = true; every param = state
\* (lines 755-761, 773-779, 787-793)
LoadGtag(acc, type, consentState) ==
  IF HasGtag(type)
    THEN [acc EXCEPT !.hasGtagUpdates = TRUE,
                     !.gtagConsentUpdate = SetParams(@, type, consentState)]
    ELSE acc

\* AutoGrant that also marks the visitor as having consented.
AutoGrant_MarksConsented(self, r, type) ==
  IF r.ret = Null
    THEN setHasConsented(self, setConsentChoice(self, r.w, type.id, JsTrue))
    ELSE r.w

\* AutoGrant that persists nothing.
AutoGrant_NoWrite(self, r, type) == r.w

\* Set to localStorage immediately if not already set (lines 746-750)
AutoGrant(self, r, type) ==
  IF r.ret = Null THEN setConsentChoice(self, r.w, type.id, JsTrue) ELSE r.w

\* The required branch (lines 744-767).
LoadRequired(self, acc0, type) ==
  With(acc0, LAMBDA acc :
    With(getConsentChoice(self, acc.w, type.id), LAMBDA r :
      With(LoadGtag([acc EXCEPT !.w = _injectConsentScripts(AutoGrant(self, r, type), type)],
                    type, "granted"),
           LAMBDA a2 : [a2 EXCEPT !.w = CallOnAccept(@, type)])))

\* LoadOptional taking every category that is not accepted as rejected.
LoadOptional_UnsetRejects(self, acc, type, acceptedConsents, rejectedConsents) ==
  IF Truthy(acceptedConsents[type.id])
    THEN With(LoadGtag([acc EXCEPT !.w = _injectConsentScripts(@, type)], type, "granted"),
              LAMBDA a2 : [a2 EXCEPT !.w = CallOnAccept(@, type)])
    ELSE With(LoadGtag(acc, type, "denied"),
              LAMBDA a2 : [a2 EXCEPT !.w = CallOnReject(@, type)])

\* The branches of a category that is not required (lines 770-798).
LoadOptional(self, acc, type, acceptedConsents, rejectedConsents) ==
  IF Truthy(acceptedConsents[type.id])
    THEN With(LoadGtag([acc EXCEPT !.w = _injectConsentScripts(@, type)], type, "granted"),
              LAMBDA a2 : [a2 EXCEPT !.w = CallOnAccept(@, type)])
  ELSE IF Truthy(rejectedConsents[type.id])
    THEN With(LoadGtag(acc, type, "denied"),
              LAMBDA a2 : [a2 EXCEPT !.w = CallOnReject(@, type)])
  ELSE acc

RECURSIVE LoadFrom(_, _, _, _, _)
LoadFrom(self, acc, acceptedConsents, rejectedConsents, i) ==
  IF i > Len(self.config.consentTypes) THEN acc
  ELSE LoadFrom(self,
                IF self.config.consentTypes[i].required
                  THEN LoadRequired(self, acc, self.config.consentTypes[i])
                  ELSE LoadOptional(self, acc, self.config.consentTypes[i],
                                    acceptedConsents, rejectedConsents),
                acceptedConsents, rejectedConsents, i + 1)

\* lines 802-811
SignalLoad(w, hasGtagUpdates, gtagConsentUpdate) ==
  IF hasGtagUpdates /\ integration = "gtag"
    THEN Emit(w, Ev("gtag", "update", gtagConsentUpdate, TRUE))
  ELSE IF "analytics_storage" \in DOMAIN gtagConsentUpdate /\ integration = "silktide"
    THEN CallSilktide(w, gtagConsentUpdate)
  ELSE w

\* lines 815-823
PushLoadEvent(w, hasGtagUpdates, gtagConsentUpdate) ==
  IF hasGtagUpdates /\ (\E p \in DOMAIN gtagConsentUpdate : gtagConsentUpdate[p] = "granted")
    THEN PushEvent(w) ELSE w

\* lines 730-824
runConsentCallbacksOnLoad(self, w) ==
  With(getAcceptedConsents(self, w), LAMBDA accepted :
    With(getRejectedConsents(self, accepted.w), LAMBDA rejected :
      With(LoadFrom(self,
                    [w |-> rejected.w, hasGtagUpdates |-> FALSE,
                     gtagConsentUpdate |-> EmptyPayload],
                    accepted.ret, rejected.ret, 1),
           LAMBDA acc :
        PushLoadEvent(SignalLoad(acc.w, acc.hasGtagUpdates, acc.gtagConsentUpdate),
                      acc.hasGtagUpdates, acc.gtagConsentUpdate))))

\* lines 534-563
triggerConsentIntegration(w, type, accepted) ==
  IF ~HasGtag(type) THEN w
  ELSE PushEvent(
         IF integration = "gtag"
           THEN Emit(w, Ev("gtag", "update",
                           SetParams(EmptyPayload, type, ConsentState(accepted)), TRUE))
         ELSE IF \E i \in 1..Len(GtagParams(type)) : GtagParams(type)[i] = "analytics_storage"
           THEN Emit(w, Ev("silktide", Null,
                           IF Truthy(accepted) THEN "consent" ELSE "unconsent", TRUE))
         ELSE w)

\* One iteration of runStoredConsentCallbacks (lines 831-849).
StoredCallback(w, type, accepted) ==
  With(triggerConsentIntegration(
         IF Truthy(accepted) THEN _injectConsentScripts(w, type) ELSE w, type, accepted),
       LAMBDA w2 : IF Truthy(accepted) THEN CallOnAccept(w2, type) ELSE CallOnReject(w2, type))

RECURSIVE StoredFrom(_, _, _)
StoredFrom(self, w, i) ==
  IF i > Len(self.config.consentTypes) THEN w
  ELSE StoredFrom(self,
                  With(getConsentChoice(self, w, self.config.consentTypes[i].id), LAMBDA r :
                    StoredCallback(r.w, self.config.consentTypes[i], r.ret)),
                  i + 1)

\* lines 829-851
runStoredConsentCallbacks(self, w) == StoredFrom(self, w, 1)

\* -------------------------------------------------------------- constructor

\* _validateConfig without the check of the empty list.
_validateConfig_AllowEmpty(config) ==
  IF ~config.given THEN "config is required"
  ELSE IF ~config.isArray THEN "config.consentTypes must be an array"
  ELSE "ok"

\* lines 60-70
_validateConfig(config) ==
  IF ~config.given THEN "config is required"
  ELSE IF ~config.isArray THEN "config.consentTypes must be an array"
  ELSE IF Len(config.consentTypes) = 0 THEN "config.consentTypes cannot be empty"
  ELSE "ok"

\* lines 976-981
shouldShowPrompt(self, w) ==
  IF ~self.config.autoShow THEN [w |-> w, ret |-> FALSE]
  ELSE With(getHasConsented(self, w), LAMBDA r : [w |-> r.w, ret |-> ~r.ret])

\* getModalContent (lines 1010-1062): the stored choices are read, and for
\* every category that is not accepted the has-consented flag.
RECURSIVE ModalRows(_, _, _, _)
ModalRows(self, w, acceptedConsentMap, i) ==
  IF i > Len(self.config.consentTypes) THEN w
  ELSE ModalRows(self,
                 IF Truthy(acceptedConsentMap[self.config.consentTypes[i].id]) THEN w
                 ELSE getHasConsented(self, w).w,
                 acceptedConsentMap, i + 1)

getModalContent(self, w) ==
  With(getAcceptedConsents(self, w), LAMBDA a : ModalRows(self, a.w, a.ret, 1))

\* The instance the constructor leaves (lines 15-30).
Instance(config, available) ==
  [exists |-> TRUE, config |-> config, localStorageAvailable |-> available,
   prompt |-> FALSE, modalOpen |-> FALSE]

\* lines 13-52: [w, self]; an invalid config throws before anything else.
Construct(config, w) ==
  IF _validateConfig(config) # "ok"
    THEN [w |-> [w EXCEPT !.thrown = TRUE], self |-> NoInstance]
    ELSE With(_checkLocalStorageAvailable(w), LAMBDA probe :
           With(shouldShowPrompt(Instance(config, probe.ret),
                                 getModalContent(Instance(config, probe.ret), probe.w)),
                LAMBDA sp :
             [w |-> runConsentCallbacksOnLoad(Instance(config, probe.ret), sp.w),
              self |-> [Instance(config, probe.ret) EXCEPT !.prompt = sp.ret]]))

\* destroy that also cancels the pending reload.
destroy_CancelsReload(self, w) == [w EXCEPT !.timers = 0]

\* lines 149-164: the widget's elements and the references to them go; the
\* injected scripts, the storage and the pending timer stay.
destroy(self, w) == w

\* init (lines 1446-1465): an existing instance is destroyed and dropped,
\* then the constructor runs.
init(config, self, w) == Construct(config, IF self.exists THEN destroy(self, w) ELSE w)

\* deepMerge (lines 1479-1489) over a config whose fields are booleans and
\* arrays: a field of the partial config replaces the field of the same name.
deepMerge(target, source) ==
  [key \in DOMAIN target |-> IF key \in DOMAIN source THEN source[key] ELSE target[key]]

\* ----------------------------------------------------------- consent actions

TypeIds(self) == {self.config.consentTypes[i].id : i \in 1..Len(self.config.consentTypes)}

TypeOf(self, id) ==
  CHOOSE t \in {self.config.consentTypes[i] : i \in 1..Len(self.config.consentTypes)} : t.id = id

\* ChoiceStates without the override of required categories.
ChoiceStates_Unforced(self, accepted) == [id \in TypeIds(self) |-> accepted]

\* consentStates of handleConsentChoice (lines 678-685)
ChoiceStates(self, accepted) ==
  [id \in TypeIds(self) |-> IF TypeOf(self, id).required THEN JsTrue ELSE accepted]

\* consentStates of the preferences' reject-all button (lines 1349-1352)
RejectAllStates(self) ==
  [id \in TypeIds(self) |-> IF TypeOf(self, id).required THEN JsTrue ELSE JsFalse]

\* lines 691-695
CallAllCallback(self, w, accepted) ==
  IF Truthy(accepted) /\ self.config.onAcceptAll
    THEN Emit(w, Ev("onAcceptAll", Null, Null, TRUE))
  ELSE IF ~Truthy(accepted) /\ self.config.onRejectAll
    THEN Emit(w, Ev("onRejectAll", Null, Null, TRUE))
  ELSE w

\* lines 668-699
handleConsentChoice(self, w, accepted) ==
  With(batchUpdateConsents(self, setHasConsented(self, w), ChoiceStates(self, accepted)),
       LAMBDA b :
    IF b.w.thrown THEN b.w
    ELSE updateCheckboxState(self, CallAllCallback(self, b.w, accepted)))

\* DefaultAccepted that looks at type.required only.
DefaultAccepted_RequiredOnly(type) == type.required

\* type.required || type.defaultValue  (line 1205)
DefaultAccepted(type) == type.required \/ type.defaultValue

\* One iteration of handleDefaultConsent (lines 1203-1223).
DefaultStep(self, w, type) ==
  With(setConsentChoice(self, w, type.id,
                        IF DefaultAccepted(type) THEN JsTrue ELSE JsFalse),
       LAMBDA w1 :
    updateCheckboxState(self,
      setHasConsented(self,
        IF DefaultAccepted(type) THEN CallOnAccept(w1, type) ELSE CallOnReject(w1, type))))

RECURSIVE DefaultFrom(_, _, _)
DefaultFrom(self, w, i) ==
  IF i > Len(self.config.consentTypes) THEN w
  ELSE DefaultFrom(self, DefaultStep(self, w, self.config.consentTypes[i]), i + 1)

\* lines 1201-1225
handleDefaultConsent(self, w) == DefaultFrom(self, w, 1)

\* The reject-all button of the preferences (lines 1331-1362).
ModalRejectAll(self, w) ==
  batchUpdateConsents(self, setHasConsented(self, w), RejectAllStates(self)).w

\* The save button of the preferences (lines 1306-1328).
ModalSave(self, w, consentStates) ==
  batchUpdateConsents(self, setHasConsented(self, w), consentStates).w

\* What the checkboxes of the preferences can hold when Save is pressed: the
\* box of a required category is checked and disabled (lines 1070-1072, 515-517).
CheckboxStates(self) ==
  {m \in [TypeIds(self) -> {JsTrue, JsFalse}] :
     \A id \in TypeIds(self) : TypeOf(self, id).required => m[id] = JsTrue}

\* The maps a caller of batchUpdateConsents can pass: a boolean for some or
\* all of the configured ids.
BatchMaps(self) ==
  UNION {[D -> {JsTrue, JsFalse}] : D \in SUBSET TypeIds(self)}

\* ------------------------------------------------------------------ actions

Here == World(ls, doc, timers)

Before == [ls |-> ls, doc |-> doc, timers |-> timers, cm |-> cm]

\* The operation's effects become the new state; `last` keeps what it did.
Commit(op, arg, w, ret, self) ==
  /\ w.timers <= MaxTimers
  /\ ls' = w.ls
  /\ doc' = w.doc
  /\ timers' = w.timers
  /\ cm' = self
  /\ last' = [op |-> op, arg |-> arg, ret |-> ret, trace |-> w.trace,
              thrown |-> w.thrown, pre |-> Before]
  /\ UNCHANGED <<lsMode, integration>>

\* MainConfig with autoShow: false: the banner is never shown by itself.
QuietConfig == [MainConfig EXCEPT !.autoShow = FALSE]

InitConfigs == {MainConfig, QuietConfig}

\* window.silktideConsentManager.init (lines 1446-1465): the page's script
\* on every page load, or the host application at any time.
Api_init ==
  \E config \in InitConfigs :
    \E r \in {init(config, cm, Here)} :
      Commit("init", config, r.w, Undefined, r.self)

\* The configs the constructor refuses: none, consentTypes missing or not an
\* array, consentTypes empty.
InvalidConfigs ==
  {[MainConfig EXCEPT !.given = FALSE],
   [MainConfig EXCEPT !.isArray = FALSE],
   [MainConfig EXCEPT !.consentTypes = <<>>]}

\* init with such a config (lines 1446-1465): the existing instance is
\* destroyed and dropped (lines 1450-1453) before the constructor throws.
Api_initInvalid ==
  \E config \in InvalidConfigs :
    \E r \in {init(config, cm, Here)} :
      Commit("init", config, r.w, Undefined, r.self)

\* window.silktideConsentManager.resetConsent (lines 1500-1511): the
\* instance's clearAllConsents, then init with the instance's config.
Api_resetConsent ==
  /\ cm.exists
  /\ \E r \in {init(cm.config, cm, clearAllConsents(cm, Here))} :
       Commit("resetConsent", Null, r.w, Undefined, r.self)

\* The partial configs the host application passes to update.
UpdateConfigs ==
  {[autoShow |-> TRUE],
   [autoShow |-> FALSE, consentTypes |-> <<Necessary, Analytics>>]}

\* window.silktideConsentManager.update (lines 1473-1494)
Api_update ==
  /\ cm.exists
  /\ \E newConfig \in UpdateConfigs :
       \E r \in {init(deepMerge(cm.config, newConfig), cm, Here)} :
         Commit("update", newConfig, r.w, Undefined, r.self)

\* The banner's accept-all and reject-all buttons (lines 1255-1256).
Click_BannerChoice ==
  /\ cm.exists
  /\ cm.prompt
  /\ \E accepted \in {JsTrue, JsFalse} :
       \E w \in {handleConsentChoice(cm, Here, accepted)} :
         Commit("handleConsentChoice", accepted, w, Undefined,
                [cm EXCEPT !.prompt = FALSE, !.modalOpen = FALSE])

\* The banner's preferences button or the icon: toggleModal(true)
\* (lines 1257-1260, 1396-1407, 1104-1119).
Click_OpenPreferences ==
  /\ cm.exists
  /\ ~cm.modalOpen
  /\ \E w \in {updateCheckboxState(cm, Here)} :
       Commit("toggleModal", JsTrue, w, Undefined,
              [cm EXCEPT !.prompt = FALSE, !.modalOpen = TRUE])

\* The close button, Escape or the icon: toggleModal(false)
\* (lines 1297-1303, 1383-1385, 1409-1411, 1120-1130).
Click_ClosePreferences ==
  /\ cm.exists
  /\ cm.modalOpen
  /\ Commit("toggleModal", JsFalse, Here, Undefined, [cm EXCEPT !.modalOpen = FALSE])

\* The preferences' save button (lines 1306-1328).
Click_Save ==
  /\ cm.exists
  /\ cm.modalOpen
  /\ \E consentStates \in CheckboxStates(cm) :
       \E w \in {ModalSave(cm, Here, consentStates)} :
         Commit("save", consentStates, w, Undefined,
                [cm EXCEPT !.prompt = FALSE, !.modalOpen = FALSE])

\* The preferences' reject-all button (lines 1331-1362).
Click_ModalRejectAll ==
  /\ cm.exists
  /\ cm.modalOpen
  /\ \E w \in {ModalRejectAll(cm, Here)} :
       Commit("modalRejectAll", JsFalse, w, Undefined,
              [cm EXCEPT !.prompt = FALSE, !.modalOpen = FALSE])

\* getInstance().batchUpdateConsents(map)
Call_batchUpdateConsents ==
  /\ cm.exists
  /\ \E consentStates \in BatchMaps(cm) :
       \E r \in {batchUpdateConsents(cm, Here, consentStates)} :
         Commit("batchUpdateConsents", consentStates, r.w, r.ret, cm)

\* getInstance().getConsentChoice(id)
Call_getConsentChoice ==
  /\ cm.exists
  /\ \E id \in TypeIds(cm) :
       \E r \in {getConsentChoice(cm, Here, id)} :
         Commit("getConsentChoice", id, r.w, r.ret, cm)

\* getInstance().getHasConsented()
Call_getHasConsented ==
  /\ cm.exists
  /\ \E r \in {getHasConsented(cm, Here)} :
       Commit("getHasConsented", Null, r.w, r.ret, cm)

\* getInstance().getRejectedConsents()
Call_getRejectedConsents ==
  /\ cm.exists
  /\ \E r \in {getRejectedConsents(cm, Here)} :
       Commit("getRejectedConsents", Null, r.w, r.ret, cm)

\* getInstance().clearAllConsents()
Call_clearAllConsents ==
  /\ cm.exists
  /\ \E w \in {clearAllConsents(cm, Here)} :
       Commit("clearAllConsents", Null, w, Undefined, cm)

\* getInstance().runStoredConsentCallbacks()
Call_runStoredConsentCallbacks ==
  /\ cm.exists
  /\ \E w \in {runStoredConsentCallbacks(cm, Here)} :
       Commit("runStoredConsentCallbacks", Null, w, Undefined, cm)

\* getInstance().handleDefaultConsent()
Call_handleDefaultConsent ==
  /\ cm.exists
  /\ \E w \in {handleDefaultConsent(cm, Here)} :
       Commit("handleDefaultConsent", Null, w, Undefined, cm)

\* The deferred window.location.reload() (lines 657-659): the page and
\* everything in it goes; localStorage stays.
ReloadFires ==
  /\ timers > 0
  /\ timers' = 0
  /\ doc' = <<>>
  /\ cm' = NoInstance
  /\ ls' = ls
  /\ last' = [op |-> "reload", arg |-> Null, ret |-> Undefined, trace |-> <<>>,
              thrown |-> FALSE, pre |-> Before]
  /\ UNCHANGED <<lsMode, integration>>

\* ----------------------------------------------------------- initial states

OldChoice(id) == <<"silktideCookieChoice", "_">> \o id
OldFlag == <<"silktideCookieBanner", "_", "InitialChoice">>
NewChoice(id) == <<"stcm", ".", "consent", ".">> \o id
NewFlag == <<"stcm", ".", "hasConsented">>

EmptyStore == [k \in {} |-> ""]

\* What a visitor's browser can hold when the page loads: nothing, the
\* entries of the previous version of the widget, entries of this version,
\* and entries of other scripts of the page.
InitStores ==
  { EmptyStore,
    (OldChoice(<<"necessary">>) :> "true") @@ (OldChoice(<<"analytics">>) :> "true")
      @@ (OldChoice(<<"marketing">>) :> "false") @@ (OldFlag :> "1")
      @@ (<<"theme">> :> "dark"),
    (OldChoice(<<"analytics">>) :> "false"),
    (NewChoice(<<"necessary">>) :> "true") @@ (OldChoice(<<"analytics">>) :> "true")
      @@ (NewFlag :> "1") }

NoOp == [op |-> "none", arg |-> Null, ret |-> Undefined, trace |-> <<>>, thrown |-> FALSE,
         pre |-> [ls |-> EmptyStore, doc |-> <<>>, timers |-> 0, cm |-> NoInstance]]

Init ==
  /\ ls \in InitStores
  /\ lsMode = "none"
  /\ integration \in {"gtag", "silktide"}
  /\ doc = <<>>
  /\ timers = 0
  /\ cm = NoInstance
  /\ last = NoOp

Next ==
  \/ Api_init
  \/ Api_initInvalid
  \/ Api_resetConsent
  \/ Api_update
  \/ Click_BannerChoice
  \/ Click_OpenPreferences
  \/ Click_ClosePreferences
  \/ Click_Save
  \/ Click_ModalRejectAll
  \/ Call_batchUpdateConsents
  \/ Call_getConsentChoice
  \/ Call_getHasConsented
  \/ Call_getRejectedConsents
  \/ Call_clearAllConsents
  \/ Call_runStoredConsentCallbacks
  \/ ReloadFires

\* The widget on a page whose storage works.
Spec == Init /\ [][Next]_vars

\* The page stays open: a timer that is pending fires (setTimeout of 100 ms,
\* lines 657-659).
SpecLive == Spec /\ WF_timers(ReloadFires)

\* ---------------------------------------------- the wider configuration

Api_initWide ==
  \E r \in {init(WideConfig, cm, Here)} :
    Commit("init", WideConfig, r.w, Undefined, r.self)

InitBatch ==
  /\ ls = EmptyStore
  /\ lsMode = "none"
  /\ integration \in {"gtag", "silktide"}
  /\ doc = <<>>
  /\ timers = 0
  /\ cm = NoInstance
  /\ last = NoOp

NextBatch ==
  \/ Api_initWide
  \/ Call_batchUpdateConsents
  \/ Call_clearAllConsents
  \/ ReloadFires

\* batchUpdateConsents under the configuration of three categories.
SpecBatch == InitBatch /\ [][NextBatch]_vars

\* ------------------------------------------------------ the consent store

\* Every store over the legacy and the current keys of MainConfig.
StoreUniverse ==
  {NewChoice(<<"necessary">>), OldChoice(<<"necessary">>),
   NewChoice(<<"analytics">>), OldChoice(<<"analytics">>), NewFlag, OldFlag}

KeyValues(k) == IF k \in {NewFlag, OldFlag} THEN {"1"} ELSE {"true", "false"}

AllStores ==
  UNION {{s \in [D -> {"true", "false", "1"}] : \A k \in D : s[k] \in KeyValues(k)} :
           D \in SUBSET StoreUniverse}

InitStore ==
  /\ ls \in AllStores
  /\ lsMode = "none"
  /\ integration = "gtag"
  /\ doc = <<>>
  /\ timers = 0
  /\ cm = Instance(MainConfig, TRUE)
  /\ last = NoOp

NextStore ==
  \/ Call_getConsentChoice
  \/ Call_getHasConsented
  \/ Call_getRejectedConsents

\* The reads of the consent store as functions of the storage they find.
SpecStore == InitStore /\ [][NextStore]_vars

\* ------------------------------------------------------- failing storage

\* this._getLocalStorageItem(key) and its two siblings, called on any key.
AdapterKeys == {NewChoice(<<"analytics">>), <<"theme">>}

Call_getLocalStorageItem ==
  /\ cm.exists
  /\ \E key \in AdapterKeys :
       \E r \in {_getLocalStorageItem(cm, Here, key)} :
         Commit("_getLocalStorageItem", key, r.w, r.ret, cm)

Call_setLocalStorageItem ==
  /\ cm.exists
  /\ \E key \in AdapterKeys :
       \E r \in {_setLocalStorageItem(cm, Here, key, "true")} :
         Commit("_setLocalStorageItem", key, r.w, r.ret, cm)

Call_removeLocalStorageItem ==
  /\ cm.exists
  /\ \E key \in AdapterKeys :
       \E r \in {_removeLocalStorageItem(cm, Here, key)} :
         Commit("_removeLocalStorageItem", key, r.w, r.ret, cm)

StorageModes == {"none", "quota", "disabled"}

\* The browser's storage starts or stops failing: it fills up, is emptied,
\* is blocked or unblocked.
StorageModeChanges ==
  /\ \E m \in StorageModes \ {lsMode} : lsMode' = m
  /\ last' = [op |-> "storageMode", arg |-> Null, ret |-> Undefined, trace |-> <<>>,
              thrown |-> FALSE, pre |-> Before]
  /\ UNCHANGED <<ls, integration, doc, timers, cm>>

InitFaulty ==
  /\ ls \in InitStores
  /\ lsMode \in StorageModes
  /\ integration = "gtag"
  /\ doc = <<>>
  /\ timers = 0
  /\ cm = NoInstance
  /\ last = NoOp

NextFaulty ==
  \/ Api_init
  \/ Call_getLocalStorageItem
  \/ Call_setLocalStorageItem
  \/ Call_removeLocalStorageItem
  \/ Call_getConsentChoice
  \/ Call_getHasConsented
  \/ Call_clearAllConsents
  \/ StorageModeChanges

\* The widget on a page whose storage can fail.
SpecFaulty == InitFaulty /\ [][NextFaulty]_vars

\* ------------------------------------------------------------- namespaces

\* A category with nothing attached to it.
Plain(id) ==
  [id |-> id, required |-> FALSE, defaultValue |-> FALSE,
   scripts |-> <<>>, gtag |-> NoGtag, onAccept |-> FALSE, onReject |-> FALSE]

\* Configs that differ in config.namespace: none, "eu" and "consent".
NsConfigs ==
  {Config(<<Plain(<<"analytics">>), Plain(<<"hasConsented">>)>>, <<>>),
   Config(<<Plain(<<"analytics">>)>>, <<"eu">>),
   Config(<<Plain(<<"analytics">>)>>, <<"consent">>)}

Api_initNs ==
  \E config \in NsConfigs :
    \E r \in {init(config, cm, Here)} :
      Commit("init", config, r.w, Undefined, r.self)

\* getInstance().setConsentChoice(id, accepted)
Call_setConsentChoice ==
  /\ cm.exists
  /\ \E id \in TypeIds(cm), accepted \in {JsTrue, JsFalse} :
       \E w \in {setConsentChoice(cm, Here, id, accepted)} :
         Commit("setConsentChoice", [id |-> id, accepted |-> accepted], w, Undefined, cm)

\* getInstance().setHasConsented()
Call_setHasConsented ==
  /\ cm.exists
  /\ \E w \in {setHasConsented(cm, Here)} :
       Commit("setHasConsented", Null, w, Undefined, cm)

NextNs ==
  \/ Api_initNs
  \/ Call_setConsentChoice
  \/ Call_setHasConsented
  \/ Call_clearAllConsents

\* Widgets with different namespaces on pages that share one localStorage.
SpecNs == InitBatch /\ [][NextNs]_vars

\* ------------------------------------------------------ the store's writes

NextWrite ==
  \/ Call_setConsentChoice
  \/ Call_setHasConsented

\* The writes of the consent store as functions of the storage they find.
SpecWrite == InitStore /\ [][NextWrite]_vars

\* ----------------------------------------------------- the load evaluation

\* A configuration without a required category.
OptionalConfig == Config(<<Analytics, Marketing>>, <<>>)

LoadConfigs == {MainConfig, WideConfig, OptionalConfig}

Api_initLoad ==
  \E config \in LoadConfigs :
    \E r \in {init(config, cm, Here)} :
      Commit("init", config, r.w, Undefined, r.self)

InitLoad ==
  /\ ls \in AllStores
  /\ lsMode = "none"
  /\ integration \in {"gtag", "silktide"}
  /\ doc = <<>>
  /\ timers = 0
  /\ cm = NoInstance
  /\ last = NoOp

\* Page loads and the default consent over every stored state, under three
\* configurations.
SpecLoad == InitLoad /\ [][Api_initLoad \/ Call_handleDefaultConsent]_vars

\* ------------------------------------------- batches over failing storage

NextFaultyBatch ==
  \/ Api_init
  \/ Call_batchUpdateConsents
  \/ StorageModeChanges
  \/ ReloadFires

\* batchUpdateConsents on a page whose storage can fail.
SpecFaultyBatch == InitFaulty /\ [][NextFaultyBatch]_vars

\* ------------------------------------------------------------- properties

\* The three states of a choice.
Granted == JsTrue
Denied == JsFalse
Unset == Null

\* The logical value of a category's choice in a store: the current key's
\* string, else the legacy key's.
RawChoiceIn(store, id) ==
  IF NewChoice(id) \in DOMAIN store THEN store[NewChoice(id)]
  ELSE IF OldChoice(id) \in DOMAIN store THEN store[OldChoice(id)]
  ELSE Null

ChoiceIn(store, id) ==
  IF RawChoiceIn(store, id) = Null THEN Unset
  ELSE IF RawChoiceIn(store, id) = "true" THEN Granted
  ELSE Denied

\* Positions in the last operation's trace of the effects of the given kinds.
EventsOf(kinds) == {i \in 1..Len(last.trace) : last.trace[i].e \in kinds}

SideEffects ==
  {"setItem", "removeItem", "gtag", "silktide", "dataLayer.push",
   "onAccept", "onReject", "appendChild", "setTimeout"}

\* The map the last operation passed to batchUpdateConsents.
BatchCalls == EventsOf({"batchUpdateConsents"})
BatchArg == last.trace[CHOOSE i \in BatchCalls : TRUE].v

MapEqualsStored(m, pre) ==
  \A id \in TypeIds(pre.cm) : Lookup(m, id) = ChoiceIn(pre.ls, id)

\* C1: batchUpdateConsents called with a map that equals the stored choice of
\* every configured category returns false and has no side effect: no storage
\* write or delete, no consent-signal call, no event push, no onAccept or
\* onReject, no script injection, no reload scheduled.
C1_IdempotentBatch ==
  (last.op = "batchUpdateConsents" /\ MapEqualsStored(last.arg, last.pre)) =>
    /\ last.ret = JsFalse
    /\ ~last.thrown
    /\ EventsOf(SideEffects) = {}
    /\ ls = last.pre.ls
    /\ doc = last.pre.doc
    /\ timers = last.pre.timers

C1_Witness ==
  /\ last.op = "batchUpdateConsents"
  /\ MapEqualsStored(last.arg, last.pre)
  /\ last.arg[<<"analytics">>] = JsFalse

\* The categories with signal identifiers whose requested boolean differs
\* from the stored choice.
SignalledChanges(m, pre) ==
  {id \in TypeIds(pre.cm) :
     /\ HasGtag(TypeOf(pre.cm, id))
     /\ id \in DOMAIN m
     /\ m[id] # ChoiceIn(pre.ls, id)}

ParamsOf(self, id) ==
  {GtagParams(TypeOf(self, id))[i] : i \in 1..Len(GtagParams(TypeOf(self, id)))}

ExpectedPayload(m, pre) ==
  [p \in UNION {ParamsOf(pre.cm, id) : id \in SignalledChanges(m, pre)} |->
     IF \E id \in SignalledChanges(m, pre) : p \in ParamsOf(pre.cm, id) /\ m[id] = JsTrue
       THEN "granted" ELSE "denied"]

\* C2: when several categories with signal identifiers change in one
\* batchUpdateConsents call, the consent-signal integration is invoked exactly
\* once, with every identifier of every changed category mapped to "granted"
\* or "denied" by the new value and no identifier of an unchanged category.
C2_OneBatchedSignal ==
  (/\ last.op = "batchUpdateConsents"
   /\ integration = "gtag"
   /\ Cardinality(SignalledChanges(last.arg, last.pre)) >= 2) =>
    /\ Cardinality(EventsOf({"gtag"})) = 1
    /\ \A i \in EventsOf({"gtag"}) : last.trace[i].v = ExpectedPayload(last.arg, last.pre)

\* The key pair of the logical value the last read was about.
ReadKeys ==
  IF last.op = "getConsentChoice"
    THEN [new |-> NewChoice(last.arg), old |-> OldChoice(last.arg)]
    ELSE [new |-> NewFlag, old |-> OldFlag]

LegacyOnly(store, keys) == keys.old \in DOMAIN store /\ keys.new \notin DOMAIN store

\* The same read once more, in the current state.
SecondRead ==
  IF last.op = "getConsentChoice" THEN getConsentChoice(cm, Here, last.arg)
  ELSE getHasConsented(cm, Here)

\* C3: a read of a logical value (a choice or the has-consented flag) that is
\* present under the legacy key only returns the legacy value, leaves the
\* legacy key absent and the current key holding the same string; a second
\* read returns the same result and changes no key.
C3_LegacyMigratedOnRead ==
  (/\ last.op \in {"getConsentChoice", "getHasConsented"}
   /\ LegacyOnly(last.pre.ls, ReadKeys)) =>
    /\ last.ret = IF last.op = "getConsentChoice"
                    THEN (IF last.pre.ls[ReadKeys.old] = "true" THEN Granted ELSE Denied)
                    ELSE TRUE
    /\ ReadKeys.old \notin DOMAIN ls
    /\ ReadKeys.new \in DOMAIN ls
    /\ ls[ReadKeys.new] = last.pre.ls[ReadKeys.old]
    /\ SecondRead.ret = last.ret
    /\ SecondRead.w.ls = ls
    /\ \A i \in 1..Len(SecondRead.w.trace) : SecondRead.w.trace[i].e = "getItem"

C3_Witness ==
  /\ last.op = "getConsentChoice"
  /\ LegacyOnly(last.pre.ls, ReadKeys)
  /\ last.pre.ls[ReadKeys.old] = "true"
  /\ last.ret = Granted

\* The categories the last operation explicitly rejected: a banner or
\* preferences reject-all, or a save with the category's box unchecked.
ExplicitlyRejected ==
  IF last.op \in {"handleConsentChoice", "modalRejectAll", "save"} /\ BatchCalls # {}
    THEN {id \in DOMAIN BatchArg : BatchArg[id] = JsFalse}
    ELSE {}

\* C4: for a category never written getConsentChoice returns Unset and
\* getRejectedConsents maps it to false; after an explicit reject of the
\* category getRejectedConsents maps it to true and getConsentChoice returns
\* Denied.
C4_UnsetIsNotDenied ==
  /\ (last.op = "getConsentChoice" /\ RawChoiceIn(last.pre.ls, last.arg) = Null) =>
       last.ret = Unset
  /\ last.op = "getRejectedConsents" =>
       \A id \in TypeIds(cm) :
         RawChoiceIn(last.pre.ls, id) = Null => last.ret[id] = JsFalse
  /\ \A id \in ExplicitlyRejected :
       /\ getRejectedConsents(cm, Here).ret[id] = JsTrue
       /\ getConsentChoice(cm, Here, id).ret = Denied

C4_Witness ==
  /\ last.op = "modalRejectAll"
  /\ RawChoiceIn(last.pre.ls, <<"analytics">>) = Null
  /\ <<"analytics">> \in ExplicitlyRejected

\* C5: on every accept-all and reject-all action (the banner's buttons and the
\* preferences' reject-all) the map passed to batchUpdateConsents holds true
\* for every required category and the action's boolean for every other one,
\* and afterwards every required category's stored choice is Granted.
C5_RequiredForcedTrue ==
  last.op \in {"handleConsentChoice", "modalRejectAll"} =>
    /\ Cardinality(BatchCalls) = 1
    /\ DOMAIN BatchArg = TypeIds(last.pre.cm)
    /\ \A id \in TypeIds(last.pre.cm) :
         BatchArg[id] = IF TypeOf(last.pre.cm, id).required THEN JsTrue ELSE last.arg
    /\ \A id \in TypeIds(last.pre.cm) :
         TypeOf(last.pre.cm, id).required => ChoiceIn(ls, id) = Granted

C5_Witness ==
  /\ last.op = "handleConsentChoice"
  /\ last.arg = JsFalse
  /\ BatchArg[<<"necessary">>] = JsTrue
  /\ BatchArg[<<"analytics">>] = JsFalse

\* The categories with a script that the map takes from Granted to false.
RevokedScripted(m, pre) ==
  {id \in TypeIds(pre.cm) :
     /\ Len(TypeOf(pre.cm, id).scripts) > 0
     /\ ChoiceIn(pre.ls, id) = Granted
     /\ Lookup(m, id) = JsFalse}

\* C6: batchUpdateConsents schedules exactly one reload when the map sets to
\* false a category that has a script and whose stored choice is Granted, and
\* none otherwise (none when the category is already Denied).
C6_RevokeSchedulesOneReload ==
  last.op = "batchUpdateConsents" =>
    /\ Cardinality(EventsOf({"setTimeout"})) =
         IF RevokedScripted(last.arg, last.pre) # {} THEN 1 ELSE 0
    /\ timers = last.pre.timers + Cardinality(EventsOf({"setTimeout"}))

\* C7: a script of a category is injected only when the category is required
\* or its choice is Granted: stored Granted when the operation began or set
\* to true by the batch being applied, and stored Granted when it ended.
C7_ScriptsOnlyWhenGranted ==
  \A i \in EventsOf({"appendChild"}) :
    \/ TypeOf(cm, last.trace[i].v).required
    \/ /\ ChoiceIn(ls, last.trace[i].v) = Granted
       /\ \/ ChoiceIn(last.pre.ls, last.trace[i].v) = Granted
          \/ \E j \in BatchCalls : j < i /\ Lookup(last.trace[j].v, last.trace[i].v) = JsTrue

C7_Witness ==
  /\ last.op = "batchUpdateConsents"
  /\ ChoiceIn(last.pre.ls, <<"analytics">>) = Denied
  /\ \E i \in EventsOf({"appendChild"}) : last.trace[i].v = <<"analytics">>

\* C8: on the first load with empty storage, with one required category and
\* one category that is not required and has a signal identifier, the required
\* category is stored Granted, the other one stays Unset, its onReject is not
\* invoked and no consent-signal call carries "denied" for its identifier.
C8_FirstLoad ==
  (last.op = "init" /\ last.arg \in InitConfigs /\ last.pre.ls = EmptyStore) =>
    \A id \in TypeIds(cm) :
      IF TypeOf(cm, id).required
        THEN ChoiceIn(ls, id) = Granted /\ NewChoice(id) \in DOMAIN ls
        ELSE /\ RawChoiceIn(ls, id) = Null
             /\ \A i \in EventsOf({"onReject"}) : last.trace[i].k # id
             /\ \A i \in EventsOf({"gtag"}) :
                  \A p \in ParamsOf(cm, id) \cap DOMAIN last.trace[i].v :
                    last.trace[i].v[p] # "denied"

C8_Witness ==
  /\ last.op = "init"
  /\ last.arg = MainConfig
  /\ last.pre.ls = EmptyStore
  /\ integration = "gtag"
  /\ EventsOf({"gtag"}) # {}
  /\ HasGtag(TypeOf(cm, <<"analytics">>))

HasLegacyKey(store) ==
  \E k \in DOMAIN store :
    IsPrefix(<<"silktideCookieChoice", "_">>, k) \/ IsPrefix(<<"silktideCookieBanner", "_">>, k)

HasCurrentKey(store) == \E k \in DOMAIN store : IsPrefix(<<"stcm", ".">>, k)

\* C9: after clearAllConsents no key with a legacy or the current prefix is
\* left in storage, getConsentChoice of every category returns Unset and
\* getHasConsented returns false.
C9_ClearRemovesBothFamilies ==
  last.op = "clearAllConsents" =>
    /\ ~HasLegacyKey(ls)
    /\ ~HasCurrentKey(ls)
    /\ \A id \in TypeIds(cm) : getConsentChoice(cm, Here, id).ret = Unset
    /\ getHasConsented(cm, Here).ret = FALSE

C9_Witness ==
  /\ last.op = "clearAllConsents"
  /\ HasLegacyKey(last.pre.ls)
  /\ HasCurrentKey(last.pre.ls)
  /\ <<"theme">> \in DOMAIN ls

StorageEvents == EventsOf({"getItem", "setItem", "removeItem", "key"})

\* C10: no storage-adapter operation raises an error.  With the probe failed
\* at construction every get returns null, every set and remove returns false
\* and storage is never touched; when a storage call throws, the adapter
\* returns null/false and the caller goes on.
C10_AdapterNeverRaises ==
  /\ last.op = "_getLocalStorageItem" =>
       /\ ~last.thrown
       /\ ~last.pre.cm.localStorageAvailable =>
            last.ret = Null /\ StorageEvents = {} /\ ls = last.pre.ls
       /\ (\E i \in StorageEvents : ~last.trace[i].ok) =>
            last.ret = Null /\ ls = last.pre.ls
  /\ last.op \in {"_setLocalStorageItem", "_removeLocalStorageItem"} =>
       /\ ~last.thrown
       /\ ~last.pre.cm.localStorageAvailable =>
            last.ret = FALSE /\ StorageEvents = {} /\ ls = last.pre.ls
       /\ (\E i \in StorageEvents : ~last.trace[i].ok) =>
            last.ret = FALSE /\ ls = last.pre.ls
  /\ last.op \in {"getConsentChoice", "getHasConsented", "clearAllConsents"} =>
       /\ ~last.thrown
       /\ ~last.pre.cm.localStorageAvailable =>
            /\ StorageEvents = {}
            /\ ls = last.pre.ls
            /\ last.op = "getConsentChoice" => last.ret = Unset
            /\ last.op = "getHasConsented" => last.ret = FALSE
  /\ last.op = "init" =>
       /\ ~last.thrown
       /\ ~cm.localStorageAvailable =>
            /\ \A i \in StorageEvents : last.trace[i].k = TestKey
            /\ ls = last.pre.ls

C10_Witness ==
  /\ last.op = "_setLocalStorageItem"
  /\ ~last.pre.cm.localStorageAvailable
  /\ lsMode = "none"
  /\ last.ret = FALSE

\* C11: constructing the widget with no config, with consentTypes missing or
\* not an array, or with an empty consentTypes fails with an error, before any
\* storage write, callback, integration call or script injection.
C11_InvalidConfigFailsFirst ==
  (last.op = "init" /\ last.arg \in InvalidConfigs) =>
    /\ last.thrown
    /\ ~cm.exists
    /\ EventsOf(SideEffects \cup {"onAcceptAll", "onRejectAll"}) = {}
    /\ ls = last.pre.ls
    /\ doc = last.pre.doc
    /\ timers = last.pre.timers

C11_Witness ==
  /\ last.op = "init"
  /\ last.arg.consentTypes = <<>>
  /\ last.thrown
  /\ last.pre.cm.exists

\* What an instance configured with `config` reads from a store: the choice
\* of each of its categories and its has-consented flag.
ReadsOf(config, store) ==
  [choices |-> [id \in TypeIds(Instance(config, TRUE)) |->
                  getConsentChoice(Instance(config, TRUE), World(store, <<>>, 0), id).ret],
   flag |-> getHasConsented(Instance(config, TRUE), World(store, <<>>, 0)).ret]

\* C12: instances with different namespaces (one of them possibly with none)
\* never collide: a setConsentChoice or setHasConsented by one never changes
\* what getConsentChoice or getHasConsented returns in another.
C12_NamespacesNeverCollide ==
  last.op \in {"setConsentChoice", "setHasConsented"} =>
    \A config \in NsConfigs :
      config.namespace # cm.config.namespace =>
        ReadsOf(config, ls) = ReadsOf(config, last.pre.ls)

\* The keys of an instance configured with `config`, in both families.
KeysOf(config) ==
  {_buildHasConsentedKey(Instance(config, TRUE)), _buildOldHasConsentedKey(Instance(config, TRUE))}
    \cup {_buildConsentKey(Instance(config, TRUE), id) : id \in TypeIds(Instance(config, TRUE))}
    \cup {_buildOldConsentKey(Instance(config, TRUE), id) : id \in TypeIds(Instance(config, TRUE))}

\* C13: clearAllConsents removes the old and the new keys of the instance's
\* own namespace and leaves what an instance of a different namespace stored
\* as it was.
C13_ClearKeepsOtherNamespaces ==
  last.op = "clearAllConsents" =>
    /\ KeysOf(cm.config) \cap DOMAIN ls = {}
    /\ \A config \in NsConfigs :
         config.namespace # cm.config.namespace =>
           \A k \in KeysOf(config) \ KeysOf(cm.config) :
             k \in DOMAIN last.pre.ls => (k \in DOMAIN ls /\ ls[k] = last.pre.ls[k])

\* The steps of the batch of the last operation, as positions in its trace.
BatchStart == CHOOSE i \in BatchCalls : TRUE

ChangedInBatch == {id \in DOMAIN BatchArg : BatchArg[id] # ChoiceIn(last.pre.ls, id)}

PersistedAt(id) ==
  {i \in EventsOf({"setItem"}) :
     /\ i > BatchStart
     /\ last.trace[i].k = NewChoice(id)
     /\ last.trace[i].v = BoolToString(BatchArg[id])
     /\ last.trace[i].ok}

BatchPersists == {i \in EventsOf({"setItem", "removeItem"}) : i > BatchStart}
BatchSignals == {i \in EventsOf({"gtag", "silktide", "dataLayer.push"}) : i > BatchStart}
BatchCallbacks == {i \in EventsOf({"onAccept", "onReject", "appendChild"}) : i > BatchStart}
BatchReloads == {i \in EventsOf({"setTimeout"}) : i > BatchStart}

AllBefore(A, B) == \A a \in A, b \in B : a < b

\* C14: in one batchUpdateConsents call the changed categories are persisted,
\* then the consent signal and the event push happen, then the callbacks of
\* the categories run, then the reload is scheduled; when a callback runs,
\* the new value of every changed category is already stored.
C14_BatchStepOrder ==
  BatchCalls # {} =>
    /\ AllBefore(BatchPersists, BatchSignals \cup BatchCallbacks \cup BatchReloads)
    /\ AllBefore(BatchSignals, BatchCallbacks \cup BatchReloads)
    /\ AllBefore(BatchCallbacks, BatchReloads)
    /\ \A c \in BatchCallbacks : \A id \in ChangedInBatch : \E p \in PersistedAt(id) : p < c

C14_Witness ==
  /\ last.op = "batchUpdateConsents"
  /\ Cardinality(ChangedInBatch) = 2
  /\ BatchSignals # {}
  /\ \E c \in BatchCallbacks : last.trace[c].e = "appendChild"
  /\ BatchReloads # {}

\* C15: a batchUpdateConsents call pushes the consent-updated event at most
\* once, and only if some changed category has a signal identifier.
C15_PushOnlyWithPayload ==
  last.op = "batchUpdateConsents" =>
    /\ Cardinality(EventsOf({"dataLayer.push"})) <= 1
    /\ EventsOf({"dataLayer.push"}) # {} => SignalledChanges(last.arg, last.pre) # {}

\* The has-consented flag in a store, under either key.
FlagIn(store) == NewFlag \in DOMAIN store \/ OldFlag \in DOMAIN store

UserChoiceOps == {"handleConsentChoice", "modalRejectAll", "save"}

\* C16: after every accept-all, reject-all and save-preferences action the
\* has-consented flag is set; and no operation other than clearAllConsents
\* and resetConsent makes a stored choice Unset or a stored flag false again.
C16_ConsentIsKept ==
  /\ last.op \in UserChoiceOps =>
       FlagIn(ls) /\ getHasConsented(cm, Here).ret = TRUE
  /\ last.op \notin {"none", "clearAllConsents", "resetConsent"} =>
       /\ FlagIn(last.pre.ls) => FlagIn(ls)
       /\ \A id \in {<<"necessary">>, <<"analytics">>, <<"marketing">>} :
            ChoiceIn(last.pre.ls, id) # Unset => ChoiceIn(ls, id) # Unset

C16_Witness ==
  /\ last.op = "save"
  /\ ~FlagIn(last.pre.ls)
  /\ ChoiceIn(last.pre.ls, <<"analytics">>) = Granted
  /\ ChoiceIn(ls, <<"analytics">>) = Denied
  /\ FlagIn(ls)

RequiredGranted(store, self) ==
  \A id \in TypeIds(self) : TypeOf(self, id).required => ChoiceIn(store, id) = Granted

\* C18: a required category is always granted: after the first load, every
\* accept-all, reject-all, save-preferences and direct batchUpdateConsents
\* call, with any map, leaves the stored choice of every required category
\* Granted.
C18_RequiredStaysGranted ==
  /\ (last.op = "init" /\ last.arg \in InitConfigs /\ RawChoiceIn(last.pre.ls, <<"necessary">>) = Null) =>
       RequiredGranted(ls, cm)
  /\ (last.op \in UserChoiceOps \cup {"batchUpdateConsents"}
      /\ RequiredGranted(last.pre.ls, last.pre.cm)) =>
       RequiredGranted(ls, cm)

\* C19: after resetConsent it is as if no choice was ever made:
\* getHasConsented returns false, every category that is not required reads
\* Unset, and the new instance shows the prompt unless autoShow is false.
C19_ResetStartsOver ==
  last.op = "resetConsent" =>
    /\ cm.exists
    /\ cm.config = last.pre.cm.config
    /\ getHasConsented(cm, Here).ret = FALSE
    /\ ~FlagIn(ls)
    /\ \A id \in TypeIds(cm) :
         ~TypeOf(cm, id).required =>
           getConsentChoice(cm, Here, id).ret = Unset /\ RawChoiceIn(ls, id) = Null
    /\ cm.prompt = cm.config.autoShow

C19_Witness ==
  /\ last.op = "resetConsent"
  /\ FlagIn(last.pre.ls)
  /\ ChoiceIn(last.pre.ls, <<"analytics">>) = Denied
  /\ ~last.pre.cm.prompt
  /\ cm.prompt

\* C20: every consent key of the current family holds "true" or "false" and
\* the has-consented key of the current family holds "1", also after a
\* migration from the legacy keys and after a batch whose map lacks a category.
C20_StoredValuesWellFormed ==
  \A k \in DOMAIN ls :
    /\ IsPrefix(<<"stcm", ".", "consent", ".">>, k) => ls[k] \in {"true", "false"}
    /\ k = NewFlag => ls[k] = "1"

C20_Witness ==
  /\ last.op = "batchUpdateConsents"
  /\ <<"analytics">> \notin DOMAIN last.arg
  /\ last.thrown
  /\ \E i \in EventsOf({"setItem"}) : last.trace[i].k = NewChoice(<<"necessary">>)
  /\ OldChoice(<<"marketing">>) \in DOMAIN ls

\* The last batchUpdateConsents call made once more, in the current state.
SecondBatch == batchUpdateConsents(cm, Here, last.arg)

SecondBatchEffects ==
  {i \in 1..Len(SecondBatch.w.trace) :
     SecondBatch.w.trace[i].e \in SideEffects \ {"setItem", "removeItem"}}

\* C21: a batchUpdateConsents call that directly follows a call with the same
\* map returns false and fires no consent-signal call, no event push, no
\* callback, no script injection and no reload, whether storage works, is
\* unavailable or refuses writes.
C21_RepeatedBatchIsSilent ==
  last.op = "batchUpdateConsents" =>
    /\ SecondBatch.ret = JsFalse
    /\ ~SecondBatch.w.thrown
    /\ SecondBatchEffects = {}
    /\ SecondBatch.w.doc = doc
    /\ SecondBatch.w.timers = timers

\* The key pair of the logical value the last write was about.
WrittenKeys ==
  IF last.op = "setConsentChoice"
    THEN [new |-> _buildConsentKey(cm, last.arg.id), old |-> _buildOldConsentKey(cm, last.arg.id)]
    ELSE [new |-> _buildHasConsentedKey(cm), old |-> _buildOldHasConsentedKey(cm)]

WrittenValue ==
  IF last.op = "setConsentChoice" THEN BoolToString(last.arg.accepted) ELSE "1"

\* C22: setConsentChoice and setHasConsented write the current-family key of
\* their logical value and leave its legacy-family key absent; no key of
\* another category or of the other logical value is written, removed or
\* changed.
C22_WriteTouchesItsOwnKeys ==
  last.op \in {"setConsentChoice", "setHasConsented"} =>
    /\ WrittenKeys.new \in DOMAIN ls
    /\ ls[WrittenKeys.new] = WrittenValue
    /\ WrittenKeys.old \notin DOMAIN ls
    /\ \A i \in EventsOf({"setItem"}) :
         last.trace[i].k = WrittenKeys.new /\ last.trace[i].v = WrittenValue
    /\ \A i \in EventsOf({"removeItem"}) : last.trace[i].k = WrittenKeys.old
    /\ \A k \in (DOMAIN ls \cup DOMAIN last.pre.ls) \ {WrittenKeys.new, WrittenKeys.old} :
         k \in DOMAIN ls /\ k \in DOMAIN last.pre.ls /\ ls[k] = last.pre.ls[k]

C22_Witness ==
  /\ last.op = "setConsentChoice"
  /\ last.arg.id = <<"analytics">>
  /\ last.arg.accepted = JsFalse
  /\ LegacyOnly(last.pre.ls, WrittenKeys)
  /\ last.pre.ls[WrittenKeys.old] = "true"
  /\ OldChoice(<<"necessary">>) \in DOMAIN ls
  /\ OldFlag \in DOMAIN ls
  /\ EventsOf({"removeItem"}) # {}

\* The categories the batch of the last operation takes from Unset to a
\* boolean.
FirstDecisions ==
  {id \in DOMAIN BatchArg \cap TypeIds(last.pre.cm) : ChoiceIn(last.pre.ls, id) = Unset}

CallbackOf(newState) == IF newState = JsTrue THEN "onAccept" ELSE "onReject"

\* C23: in batchUpdateConsents a category whose stored choice is Unset and
\* whose requested value is true or false is a change: the value is
\* persisted, the category's identifiers are in the integration payload, and
\* its onAccept (for true) or onReject (for false) is invoked; a first
\* reject-all invokes onReject of every category that is not required.
C23_FirstDecisionIsAChange ==
  BatchCalls # {} =>
    \A id \in FirstDecisions :
      /\ ChoiceIn(ls, id) = BatchArg[id]
      /\ PersistedAt(id) # {}
      /\ (integration = "gtag" /\ HasGtag(TypeOf(last.pre.cm, id))) =>
           \E i \in EventsOf({"gtag"}) :
             \A p \in ParamsOf(last.pre.cm, id) :
               /\ p \in DOMAIN last.trace[i].v
               /\ last.trace[i].v[p] = ConsentState(BatchArg[id])
      /\ \E i \in EventsOf({CallbackOf(BatchArg[id])}) :
           i > BatchStart /\ last.trace[i].k = id

\* The positions after the batch's start of the callbacks of a category.
CallbacksOf(id, kinds) ==
  {i \in EventsOf(kinds) : i > BatchStart /\ last.trace[i].k = id}

InjectionsOf(id) ==
  {i \in EventsOf({"appendChild"}) : i > BatchStart /\ last.trace[i].v = id}

ScriptsPresent(document, type) ==
  \A j \in 1..Len(type.scripts) :
    type.scripts[j].url # "" => ScriptPresent(document, type.scripts[j].url)

\* C24: in batchUpdateConsents every changed category gets exactly one
\* callback, once: a newly granted one has its scripts injected and then its
\* onAccept invoked, a newly denied one has its onReject invoked and no script
\* injected or removed; a category that did not change gets no callback.
C24_OneCallbackPerChange ==
  BatchCalls # {} =>
    /\ \A id \in ChangedInBatch \cap TypeIds(last.pre.cm) :
         IF BatchArg[id] = JsTrue
           THEN /\ Cardinality(CallbacksOf(id, {"onAccept"})) = 1
                /\ CallbacksOf(id, {"onReject"}) = {}
                /\ ScriptsPresent(doc, TypeOf(last.pre.cm, id))
                /\ AllBefore(InjectionsOf(id), CallbacksOf(id, {"onAccept"}))
           ELSE /\ Cardinality(CallbacksOf(id, {"onReject"})) = 1
                /\ CallbacksOf(id, {"onAccept"}) = {}
                /\ InjectionsOf(id) = {}
    /\ \A id \in TypeIds(last.pre.cm) \ ChangedInBatch :
         CallbacksOf(id, {"onAccept", "onReject"}) = {} /\ InjectionsOf(id) = {}
    /\ IsPrefix(last.pre.doc, doc)

NoDuplicateSrc(document) ==
  \A i, j \in 1..Len(document) : document[i].src = document[j].src => i = j

\* C25: the document never holds two injected script elements with the same
\* source URL: a descriptor whose URL is already present is skipped, and a
\* descriptor without a URL is skipped while the descriptors after it and the
\* rest of the operation go on.
C25_NoDuplicateScripts ==
  /\ NoDuplicateSrc(doc)
  /\ \A i \in EventsOf({"appendChild"}) :
       /\ last.trace[i].k # ""
       /\ ~ScriptPresent(last.pre.doc, last.trace[i].k)
  /\ \A i \in EventsOf({"onAccept"}) : ScriptsPresent(doc, TypeOf(cm, last.trace[i].k))

C25_Witness ==
  /\ last.op = "handleConsentChoice"
  /\ last.arg = JsTrue
  /\ Analytics.scripts[1].url = ""
  /\ ScriptPresent(last.pre.doc, "u0")
  /\ \E i \in EventsOf({"appendChild"}) :
       last.trace[i].k = Analytics.scripts[2].url /\ last.trace[i].v = <<"analytics">>
  /\ Len(doc) = 2
  /\ \E i \in EventsOf({"onAccept"}) : last.trace[i].k = <<"analytics">>

\* The required categories whose choice is stored under the current key.
RequiredStored(store, self) ==
  {id \in TypeIds(self) : TypeOf(self, id).required /\ NewChoice(id) \in DOMAIN store}

OnlyRequiredDecided(store, self) ==
  \A id \in TypeIds(self) : ~TypeOf(self, id).required => RawChoiceIn(store, id) = Null

\* A load writes nothing for a required category that already has a stored
\* choice.
RepeatLoadWritesNothing ==
  \A id \in RequiredStored(last.pre.ls, cm) :
    \A i \in EventsOf({"setItem", "removeItem"}) :
      last.trace[i].k \notin {NewChoice(id), OldChoice(id)}

\* C26: on load a required category is written to storage only when its
\* stored choice is Unset; a repeat load, with the required category already
\* stored, writes nothing for it and does not call the consent-signal
\* integration or push the consent-updated event again on its account.
C26_RepeatLoadIsQuiet ==
  (last.op = "init" /\ last.arg \in InitConfigs) =>
    /\ RepeatLoadWritesNothing
    /\ \A id \in RequiredStored(last.pre.ls, cm) :
         /\ \A i \in EventsOf({"gtag"}) : ParamsOf(cm, id) \cap DOMAIN last.trace[i].v = {}
         /\ OnlyRequiredDecided(last.pre.ls, cm) =>
              EventsOf({"gtag", "silktide", "dataLayer.push"}) = {}

\* The state a load evaluates a category to: Granted when it is required or
\* stored Granted, Denied when stored Denied, Unset otherwise.
LoadState(self, store, id) ==
  IF TypeOf(self, id).required THEN Granted ELSE ChoiceIn(store, id)

SignalledOnLoad(self, store) ==
  {id \in TypeIds(self) : HasGtag(TypeOf(self, id)) /\ LoadState(self, store, id) # Unset}

ExpectedLoadPayload(self, store) ==
  [p \in UNION {ParamsOf(self, id) : id \in SignalledOnLoad(self, store)} |->
     IF \E id \in SignalledOnLoad(self, store) :
          p \in ParamsOf(self, id) /\ LoadState(self, store, id) = Granted
       THEN "granted" ELSE "denied"]

\* C27: one load-time evaluation calls the consent-signal integration at most
\* once, with one payload holding "granted" for every identifier of a required
\* or stored-Granted category and "denied" for every identifier of a
\* stored-Denied one, and only if at least one category is granted; the
\* consent-updated event is pushed at most once and only if some identifier
\* is "granted".
C27_OneLoadSignal ==
  (last.op = "init" /\ cm.exists) =>
    /\ Cardinality(EventsOf({"gtag", "silktide"})) <= 1
    /\ \A i \in EventsOf({"gtag"}) : last.trace[i].v = ExpectedLoadPayload(cm, last.pre.ls)
    /\ EventsOf({"gtag", "silktide"}) # {} =>
         \E id \in TypeIds(cm) : LoadState(cm, last.pre.ls, id) = Granted
    /\ Cardinality(EventsOf({"dataLayer.push"})) <= 1
    /\ EventsOf({"dataLayer.push"}) # {} =>
         \E id \in SignalledOnLoad(cm, last.pre.ls) : LoadState(cm, last.pre.ls, id) = Granted

\* The callbacks and the injections of a category in the last operation.
CallsOf(id, kinds) == {i \in EventsOf(kinds) : last.trace[i].k = id}

InjectedFor(id) == {i \in EventsOf({"appendChild"}) : last.trace[i].v = id}

\* C28: a load evaluates each category from its stored state: a required or
\* stored-Granted category has its scripts injected and its onAccept invoked
\* exactly once; a stored-Denied category that is not required has its
\* onReject invoked exactly once and no script injected; an Unset category
\* that is not required gets no callback, no script and no payload entry; and
\* the stored choice of a category that was already decided is unchanged.
C28_LoadFromStoredState ==
  (last.op = "init" /\ cm.exists) =>
    \A id \in TypeIds(cm) :
      /\ LoadState(cm, last.pre.ls, id) = Granted =>
           /\ Cardinality(CallsOf(id, {"onAccept"})) = 1
           /\ CallsOf(id, {"onReject"}) = {}
           /\ ScriptsPresent(doc, TypeOf(cm, id))
           /\ AllBefore(InjectedFor(id), CallsOf(id, {"onAccept"}))
      /\ LoadState(cm, last.pre.ls, id) = Denied =>
           /\ Cardinality(CallsOf(id, {"onReject"})) = 1
           /\ CallsOf(id, {"onAccept"}) = {}
           /\ InjectedFor(id) = {}
      /\ LoadState(cm, last.pre.ls, id) = Unset =>
           /\ CallsOf(id, {"onAccept", "onReject"}) = {}
           /\ InjectedFor(id) = {}
           /\ HasGtag(TypeOf(cm, id)) =>
                \A i \in EventsOf({"gtag"}) : ParamsOf(cm, id) \cap DOMAIN last.trace[i].v = {}
           /\ RawChoiceIn(ls, id) = Null
      /\ ChoiceIn(last.pre.ls, id) # Unset => ChoiceIn(ls, id) = ChoiceIn(last.pre.ls, id)

C28_Witness ==
  /\ last.op = "init"
  /\ cm.exists
  /\ cm.config = WideConfig
  /\ integration = "gtag"
  /\ LegacyOnly(last.pre.ls, [new |-> NewChoice(<<"analytics">>), old |-> OldChoice(<<"analytics">>)])
  /\ ChoiceIn(last.pre.ls, <<"analytics">>) = Denied
  /\ ChoiceIn(last.pre.ls, <<"necessary">>) = Denied
  /\ CallsOf(<<"analytics">>, {"onReject"}) # {}
  /\ CallsOf(<<"necessary">>, {"onAccept"}) # {}
  /\ CallsOf(<<"marketing">>, {"onAccept", "onReject"}) = {}
  /\ \E i \in EventsOf({"gtag"}) : last.trace[i].v["analytics_storage"] = "denied"

DefaultChoice(type) == IF type.required \/ type.defaultValue THEN Granted ELSE Denied

\* C29: after handleDefaultConsent every category's stored choice is Granted
\* if it is required or its defaultValue is true and Denied otherwise, the
\* has-consented flag is set, and for each category exactly one of onAccept
\* and onReject was invoked, once, matching the stored value, whatever was
\* stored before.
C29_DefaultConsentApplied ==
  last.op = "handleDefaultConsent" =>
    /\ \A id \in TypeIds(cm) :
         /\ ChoiceIn(ls, id) = DefaultChoice(TypeOf(cm, id))
         /\ getConsentChoice(cm, Here, id).ret = DefaultChoice(TypeOf(cm, id))
         /\ Cardinality(CallsOf(id, {CallbackOf(DefaultChoice(TypeOf(cm, id)))})) = 1
         /\ Cardinality(CallsOf(id, {"onAccept", "onReject"})) = 1
    /\ FlagIn(ls)
    /\ getHasConsented(cm, Here).ret = TRUE

C29_Witness ==
  /\ last.op = "handleDefaultConsent"
  /\ cm.config = WideConfig
  /\ ~FlagIn(last.pre.ls)
  /\ ChoiceIn(last.pre.ls, <<"analytics">>) = Granted
  /\ ChoiceIn(last.pre.ls, <<"necessary">>) = Denied
  /\ ChoiceIn(last.pre.ls, <<"marketing">>) = Unset
  /\ ChoiceIn(ls, <<"analytics">>) = Denied
  /\ ChoiceIn(ls, <<"marketing">>) = Granted
  /\ CallsOf(<<"marketing">>, {"onAccept"}) # {}

\* C30: when the visitor closes the preferences (close button or Escape)
\* without having made a choice before, the default consent is applied:
\* afterwards every category has a stored choice and the has-consented flag
\* is set.
C30_CloseAppliesDefaultConsent ==
  (last.op = "toggleModal" /\ last.arg = JsFalse /\ ~FlagIn(last.pre.ls)) =>
    /\ FlagIn(ls)
    /\ \A id \in TypeIds(cm) : ChoiceIn(ls, id) # Unset

\* The effects of the batch of the last operation.
BatchEffects == BatchPersists \cup BatchSignals \cup BatchCallbacks \cup BatchReloads

\* The top-level callback of an action, once, after the action's batch.
OnlyTopLevel(kind, other) ==
  /\ Cardinality(EventsOf({kind})) = 1
  /\ EventsOf({other}) = {}
  /\ Cardinality(BatchCalls) = 1
  /\ AllBefore(BatchCalls \cup BatchEffects, EventsOf({kind}))

\* C31: every accept-all action invokes onAcceptAll exactly once and never
\* onRejectAll; every reject-all action, from the banner or from the
\* preferences, invokes onRejectAll exactly once and never onAcceptAll; the
\* top-level callback runs after the batch update of the action.
C31_TopLevelCallbacks ==
  /\ (last.op = "handleConsentChoice" /\ last.arg = JsTrue) =>
       OnlyTopLevel("onAcceptAll", "onRejectAll")
  /\ (last.op = "handleConsentChoice" /\ last.arg = JsFalse) =>
       OnlyTopLevel("onRejectAll", "onAcceptAll")
  /\ last.op = "modalRejectAll" => OnlyTopLevel("onRejectAll", "onAcceptAll")

\* C32: once a batch has scheduled the deferred reload, the reload happens,
\* also when the widget is destroyed, re-initialised, updated or reset before
\* the timer fires; no operation but the reload itself takes a pending timer
\* away.
C32_ReloadHappens ==
  /\ [][timers' < timers => last'.op = "reload"]_timers
  /\ (timers > 0) ~> (timers = 0 /\ last.op = "reload")

C32_Witness ==
  /\ last.op = "init"
  /\ last.thrown
  /\ last.pre.cm.exists
  /\ ~cm.exists
  /\ last.pre.timers > 0
  /\ timers = last.pre.timers

\* C33: a migrating read never loses the legacy value: after a read of a
\* logical value that was present under the legacy key only, the value is
\* still stored under the current key or under the legacy key, also when the
\* write of the current key fails while the removal of the legacy key
\* succeeds.
C33_MigratingReadKeepsValue ==
  (/\ last.op \in {"getConsentChoice", "getHasConsented"}
   /\ LegacyOnly(last.pre.ls, ReadKeys)) =>
    \/ ReadKeys.new \in DOMAIN ls /\ ls[ReadKeys.new] = last.pre.ls[ReadKeys.old]
    \/ ReadKeys.old \in DOMAIN ls /\ ls[ReadKeys.old] = last.pre.ls[ReadKeys.old]

\* The configured categories the map of the last batch has no entry for.
MissingFromMap == TypeIds(last.pre.cm) \ DOMAIN last.arg

\* The signal identifiers of the categories the map has an entry for.
ParamsInMap ==
  UNION {ParamsOf(last.pre.cm, id) :
           id \in {t \in DOMAIN last.arg : HasGtag(TypeOf(last.pre.cm, t))}}

\* C34: batchUpdateConsents called with a map that lacks some configured
\* category completes without raising an error and leaves that category
\* untouched: its stored choice is unchanged, no callback is invoked for it
\* and the signal payload has no entry for it.
C34_PartialMapIsSafe ==
  (last.op = "batchUpdateConsents" /\ MissingFromMap # {}) =>
    /\ ~last.thrown
    /\ \A id \in MissingFromMap :
         /\ ChoiceIn(ls, id) = ChoiceIn(last.pre.ls, id)
         /\ CallsOf(id, {"onAccept", "onReject"}) = {}
         /\ HasGtag(TypeOf(last.pre.cm, id)) =>
              \A i \in EventsOf({"gtag"}) :
                DOMAIN last.trace[i].v \cap ParamsOf(last.pre.cm, id) \subseteq ParamsInMap

\* The last operation re-initialised the widget: init or update with an
\* instance in place.
ReInitialised == last.op \in {"init", "update"} /\ last.pre.cm.exists

\* The categories of the configuration before and after.
ReInitIds == TypeIds(last.pre.cm) \cup (IF cm.exists THEN TypeIds(cm) ELSE {})

ChangedKeys ==
  {k \in DOMAIN ls \cup DOMAIN last.pre.ls :
     \/ (k \in DOMAIN ls) # (k \in DOMAIN last.pre.ls)
     \/ ls[k] # last.pre.ls[k]}

\* k is the current key of a required category without a choice, now "true".
FirstAutoGrant(k) ==
  /\ cm.exists
  /\ \E id \in TypeIds(cm) :
       /\ TypeOf(cm, id).required
       /\ ChoiceIn(last.pre.ls, id) = Unset
       /\ k = NewChoice(id)
       /\ k \in DOMAIN ls
       /\ ls[k] = "true"

\* k belongs to a key pair whose legacy value moved to the current key.
LazyMigration(k) ==
  \E P \in {[new |-> NewChoice(id), old |-> OldChoice(id)] : id \in ReInitIds}
             \cup {[new |-> NewFlag, old |-> OldFlag]} :
    /\ k \in {P.new, P.old}
    /\ LegacyOnly(last.pre.ls, P)
    /\ P.old \notin DOMAIN ls
    /\ P.new \in DOMAIN ls
    /\ ls[P.new] = last.pre.ls[P.old]

\* C35: re-initialising the widget (init with a new config, or update with a
\* partial config) never changes the stored choice of a category that already
\* has one and never changes the has-consented flag; apart from the
\* availability probe's throwaway key, the only storage writes are the
\* first-time auto-grant of required categories without a choice and the
\* lazy migration of legacy keys.
C35_ReInitKeepsChoices ==
  ReInitialised =>
    /\ \A id \in ReInitIds :
         ChoiceIn(last.pre.ls, id) # Unset => ChoiceIn(ls, id) = ChoiceIn(last.pre.ls, id)
    /\ FlagIn(ls) = FlagIn(last.pre.ls)
    /\ \A k \in ChangedKeys : FirstAutoGrant(k) \/ LazyMigration(k)
    /\ \A i \in EventsOf({"setItem", "removeItem"}) :
         (last.trace[i].ok /\ last.trace[i].k # TestKey) =>
           FirstAutoGrant(last.trace[i].k) \/ LazyMigration(last.trace[i].k)

\* C36: init called with an invalid config while an instance is active
\* raises its error and leaves the existing instance in place: getInstance
\* (lines 1517-1519, the value of cm) still returns it.
C36_FailedInitKeepsInstance ==
  (last.op = "init" /\ last.thrown /\ last.pre.cm.exists) =>
    /\ cm.exists
    /\ cm = last.pre.cm

====
